---- MODULE Spec2Model ----
(***************************************************************************)
(* Model of log_container.py: two reader threads (produce_log_messages)    *)
(* feed one queue.Queue; the main thread of log_container dequeues,        *)
(* timestamps, batches and delivers with put_log_events, and handles       *)
(* KeyboardInterrupt by stopping / killing the container.                  *)
(*                                                                         *)
(* The main thread is modelled statement by statement (variable pc),       *)
(* because KeyboardInterrupt is raised between two bytecodes of the main   *)
(* thread and the position at which it arrives decides what was done.      *)
(* Time is counted in whole seconds; a line is identified by its source    *)
(* and its position in that source's stream.                               *)
(***************************************************************************)
EXTENDS Integers, Sequences, FiniteSets, TLC

\* Bounds of the model.
MaxLines == 2      \* lines the two streams yield at most, together
MaxAhead == 7      \* the clock is not followed further than this past last_sent_time

\* log_container.py:16
SEND_LOGS_INTERVAL == 5

\* q.get(timeout=1), log_container.py:76
GET_TIMEOUT == 1

\* log_container.py:62-65, the two producer threads
Producers == {"stdout", "stderr"}

\* len(producers), log_container.py:74
NumProducers == Cardinality(Producers)

\* The death pill, `None` (log_container.py:154), as a value of the queue.
None == [source |-> "None", data |-> 0]

\* The message dict of produce_log_messages (log_container.py:148-152); the
\* command is the same in every message of a run and is left out, data is the
\* position of the line in its stream.
Message(source_name, line) == [source |-> source_name, data |-> line]

\* int(time.time() * 1000), log_container.py:87
Timestamp(t) == t * 1000

VARIABLES
    q,               \* queue.Queue(): sequence of messages and death pills
    enqueued,        \* the messages put on the queue so far, in order of q.put
    readerPc,        \* per producer thread: "unstarted", "reading", "done", "failed"
    linesRead,       \* per producer: lines it has read and enqueued so far
    pillsPut,        \* per producer: death pills it has enqueued
    pc,              \* position of the main thread
    log_message,     \* local of the main thread: result of q.get
    death_pills_num,
    total_logs_sent,
    logs_batch,
    last_sent_time,
    now,             \* time.time(), seconds
    status,          \* container.status as line 74 reads it
    delivered,       \* sink: the messages of the batches put_log_events accepted
    unordered,       \* sink: batches accepted whose timestamps were out of order
    deliveryFailed,  \* a put_log_events call raised
    interrupts,      \* KeyboardInterrupts raised in the main thread
    batchAtInterrupt,\* logs_batch when the loop was interrupted
    calls,           \* container calls made, in order: "stop", "kill", "remove"
    provisioned,     \* provisioning calls that have succeeded: 0, 1 (group), 2 (stream)
    provisionFailed, \* create_log_group or create_log_stream raised
    containersRun,   \* containers started by client.containers.run
    exitCalled,      \* the argument of exit(), NotCalled before
    reported         \* the total printed by line 108, NotReported before

vars == << q, enqueued, readerPc, linesRead, pillsPut, pc, log_message,
           death_pills_num, total_logs_sent, logs_batch, last_sent_time, now,
           status, delivered, unordered, deliveryFailed, interrupts,
           batchAtInterrupt, calls, provisioned, provisionFailed, containersRun,
           exitCalled, reported >>

\* Nothing printed by line 108 yet.
NotReported == 0 - 1

\* exit() not called.
NotCalled == 0 - 1

\* No message held by the main thread.
NoMessage == [source |-> "none", data |-> 0]

\* State on entry to log_container, after get_logs_client (lines 28-32):
\* nothing provisioned, no container, no thread.
Init ==
    /\ q = << >>
    /\ enqueued = << >>
    /\ readerPc = [p \in Producers |-> "unstarted"]
    /\ linesRead = [p \in Producers |-> 0]
    /\ pillsPut = [p \in Producers |-> 0]
    /\ pc = "create_log_group"
    /\ log_message = NoMessage
    /\ death_pills_num = 0
    /\ total_logs_sent = 0
    /\ logs_batch = << >>
    /\ last_sent_time = 0
    /\ now = 0
    /\ status = "absent"
    /\ delivered = << >>
    /\ unordered = 0
    /\ deliveryFailed = FALSE
    /\ interrupts = 0
    /\ batchAtInterrupt = << >>
    /\ calls = << >>
    /\ provisioned = 0
    /\ provisionFailed = FALSE
    /\ containersRun = 0
    /\ exitCalled = NotCalled
    /\ reported = NotReported

----------------------------------------------------------------------------
(* Start-up, log_container.py:34-72 *)

\* Lines 35, 125-131: create_log_group returns; the group was created or
\* ResourceAlreadyExistsException was passed over.
CreateLogGroup ==
    /\ pc = "create_log_group"
    /\ provisioned' = provisioned + 1
    /\ pc' = "create_log_stream"
    /\ UNCHANGED << q, enqueued, readerPc, linesRead, pillsPut, log_message,
                    death_pills_num, total_logs_sent, logs_batch,
                    last_sent_time, now, status, delivered, unordered,
                    deliveryFailed, interrupts, batchAtInterrupt, calls,
                    provisionFailed, containersRun, exitCalled, reported >>

\* Lines 36, 134-143: create_log_stream returns, likewise.
CreateLogStream ==
    /\ pc = "create_log_stream"
    /\ provisioned' = provisioned + 1
    /\ pc' = "from_env"
    /\ UNCHANGED << q, enqueued, readerPc, linesRead, pillsPut, log_message,
                    death_pills_num, total_logs_sent, logs_batch,
                    last_sent_time, now, status, delivered, unordered,
                    deliveryFailed, interrupts, batchAtInterrupt, calls,
                    provisionFailed, containersRun, exitCalled, reported >>

\* The error is printed and the program goes on: no exit(1) at line 39.
ProvisioningFails_Continues ==
    /\ pc \in {"create_log_group", "create_log_stream"}
    /\ provisionFailed' = TRUE
    /\ pc' = "from_env"
    /\ UNCHANGED << q, enqueued, readerPc, linesRead, pillsPut, log_message,
                    death_pills_num, total_logs_sent, logs_batch,
                    last_sent_time, now, status, delivered, unordered,
                    deliveryFailed, interrupts, batchAtInterrupt, calls,
                    provisioned, containersRun, exitCalled, reported >>

\* Lines 35-39: create_log_group or create_log_stream raises ClientError or
\* ConnectionError; the error is printed and exit(1) ends the program.
ProvisioningFails ==
    /\ pc \in {"create_log_group", "create_log_stream"}
    /\ provisionFailed' = TRUE
    /\ exitCalled' = 1
    /\ pc' = "exited"
    /\ UNCHANGED << q, enqueued, readerPc, linesRead, pillsPut, log_message,
                    death_pills_num, total_logs_sent, logs_batch,
                    last_sent_time, now, status, delivered, unordered,
                    deliveryFailed, interrupts, batchAtInterrupt, calls,
                    provisioned, containersRun, reported >>

\* Line 42: docker.from_env() returns a client.
DockerFromEnv ==
    /\ pc = "from_env"
    /\ pc' = "run"
    /\ UNCHANGED << q, enqueued, readerPc, linesRead, pillsPut, log_message,
                    death_pills_num, total_logs_sent, logs_batch,
                    last_sent_time, now, status, delivered, unordered,
                    deliveryFailed, interrupts, batchAtInterrupt, calls,
                    provisioned, provisionFailed, containersRun, exitCalled,
                    reported >>

\* Lines 48-50: client.containers.run starts the container, detached.
ContainersRun ==
    /\ pc = "run"
    /\ containersRun' = containersRun + 1
    /\ status' = "running"
    /\ pc' = "start_producers"
    /\ UNCHANGED << q, enqueued, readerPc, linesRead, pillsPut, log_message,
                    death_pills_num, total_logs_sent, logs_batch,
                    last_sent_time, now, delivered, unordered, deliveryFailed,
                    interrupts, batchAtInterrupt, calls, provisioned,
                    provisionFailed, exitCalled, reported >>

\* Lines 43-45 and 51-53: docker.from_env raises DockerException or
\* containers.run raises APIError; exit(1) ends the program.
DockerFails ==
    /\ pc \in {"from_env", "run"}
    /\ exitCalled' = 1
    /\ pc' = "exited"
    /\ UNCHANGED << q, enqueued, readerPc, linesRead, pillsPut, log_message,
                    death_pills_num, total_logs_sent, logs_batch,
                    last_sent_time, now, status, delivered, unordered,
                    deliveryFailed, interrupts, batchAtInterrupt, calls,
                    provisioned, provisionFailed, containersRun, reported >>

\* Lines 55-72: the log streams are opened, both producer threads started,
\* the counters initialised and last_sent_time = time.time().
StartProducers ==
    /\ pc = "start_producers"
    /\ readerPc' = [p \in Producers |-> "reading"]
    /\ death_pills_num' = 0
    /\ total_logs_sent' = 0
    /\ logs_batch' = << >>
    /\ last_sent_time' = now
    /\ pc' = "while"
    /\ UNCHANGED << q, enqueued, linesRead, pillsPut, log_message, now,
                    status, delivered, unordered, deliveryFailed, interrupts,
                    batchAtInterrupt, calls, provisioned, provisionFailed,
                    containersRun, exitCalled, reported >>

StartupStep ==
    \/ CreateLogGroup
    \/ CreateLogStream
    \/ ProvisioningFails
    \/ DockerFromEnv
    \/ ContainersRun
    \/ DockerFails
    \/ StartProducers

----------------------------------------------------------------------------
(* Environment *)

\* The clock advances by one second.  It is followed only up to MaxAhead
\* seconds past last_sent_time: beyond SEND_LOGS_INTERVAL no decision of
\* the program depends on the difference.
ClockTick(t) == IF t - last_sent_time < MaxAhead THEN t + 1 ELSE t

\* Time passes while put_log_events (line 92) is in progress.  The wait in
\* q.get is GetWaits below; the other statements of the loop take no time at
\* the resolution of the clock, one second.
Tick ==
    /\ pc = "put"
    /\ now - last_sent_time < MaxAhead
    /\ now' = ClockTick(now)
    /\ UNCHANGED << q, enqueued, readerPc, linesRead, pillsPut, pc,
                    log_message, death_pills_num, total_logs_sent, logs_batch,
                    last_sent_time, status, delivered, unordered,
                    deliveryFailed, interrupts, batchAtInterrupt, calls,
                    provisioned, provisionFailed, containersRun, exitCalled,
                    reported >>

\* The container's process exits by itself and container.status shows it.
ContainerExit ==
    /\ status = "running"
    /\ status' = "exited"
    /\ UNCHANGED << q, enqueued, readerPc, linesRead, pillsPut, pc,
                    log_message, death_pills_num, total_logs_sent, logs_batch,
                    last_sent_time, now, delivered, unordered, deliveryFailed,
                    interrupts, batchAtInterrupt, calls, provisioned,
                    provisionFailed, containersRun, exitCalled, reported >>

----------------------------------------------------------------------------
(* produce_log_messages, log_container.py:146-154 *)

\* Lines read by both producers.
TotalLinesRead == linesRead["stdout"] + linesRead["stderr"]

\* One iteration of `for line in source`: decode, build the message, q.put.
ReadLine(p) ==
    /\ readerPc[p] = "reading"
    /\ TotalLinesRead < MaxLines
    /\ linesRead' = [linesRead EXCEPT ![p] = @ + 1]
    /\ q' = Append(q, Message(p, linesRead[p] + 1))
    /\ enqueued' = Append(enqueued, Message(p, linesRead[p] + 1))
    /\ UNCHANGED << readerPc, pillsPut, pc, log_message, death_pills_num,
                    total_logs_sent, logs_batch, last_sent_time, now, status,
                    delivered, unordered, deliveryFailed, interrupts,
                    batchAtInterrupt, calls, provisioned, provisionFailed,
                    containersRun, exitCalled, reported >>

\* The stream is exhausted: the loop ends and q.put(None) runs.
ReadEOF(p) ==
    /\ readerPc[p] = "reading"
    /\ readerPc' = [readerPc EXCEPT ![p] = "done"]
    /\ pillsPut' = [pillsPut EXCEPT ![p] = @ + 1]
    /\ q' = Append(q, None)
    /\ UNCHANGED << enqueued, linesRead, pc, log_message, death_pills_num,
                    total_logs_sent, logs_batch, last_sent_time, now, status,
                    delivered, unordered, deliveryFailed, interrupts,
                    batchAtInterrupt, calls, provisioned, provisionFailed,
                    containersRun, exitCalled, reported >>

\* The iterator raises at line 147 (connection to the daemon lost) or
\* line.decode() raises at line 151: nothing catches it in
\* produce_log_messages, the thread ends without reaching line 154.
ReadError(p) ==
    /\ readerPc[p] = "reading"
    /\ readerPc' = [readerPc EXCEPT ![p] = "failed"]
    /\ UNCHANGED << q, enqueued, linesRead, pillsPut, pc, log_message,
                    death_pills_num, total_logs_sent, logs_batch,
                    last_sent_time, now, status, delivered, unordered,
                    deliveryFailed, interrupts, batchAtInterrupt, calls,
                    provisioned, provisionFailed, containersRun, exitCalled,
                    reported >>

Reader(p) == ReadLine(p) \/ ReadEOF(p) \/ ReadError(p)

----------------------------------------------------------------------------
(* The aggregator loop of log_container, log_container.py:73-99 *)

\* Line 74 without its third operand: the loop would end with entries pending.
LoopCondition_NoBatch ==
    \/ status = "running"
    \/ death_pills_num # NumProducers

\* Line 74 without its second operand: the loop would end with a reader at work.
LoopCondition_NoPills ==
    \/ status = "running"
    \/ Len(logs_batch) > 0

\* The condition of the while statement, line 74.
LoopCondition ==
    \/ status = "running"
    \/ death_pills_num # NumProducers
    \/ Len(logs_batch) > 0

\* Line 91 flushing only while the container runs.
FlushCondition_WhileRunning ==
    /\ status = "running"
    /\ Len(logs_batch) > 0
    /\ now - last_sent_time > SEND_LOGS_INTERVAL

\* Line 91 with >= in place of >.
FlushCondition_AtInterval ==
    /\ Len(logs_batch) > 0
    /\ now - last_sent_time >= SEND_LOGS_INTERVAL

\* The condition of the if statement, line 91.
FlushCondition ==
    /\ Len(logs_batch) > 0
    /\ now - last_sent_time > SEND_LOGS_INTERVAL

\* Lines 84-90 with insert(0, log) in place of append(log).
AppendLog_Prepend(batch, message, t) ==
    << [timestamp |-> Timestamp(t), message |-> message] >> \o batch

\* Lines 84-90: the log entry is stamped by the main thread and appended.
AppendLog(batch, message, t) ==
    Append(batch, [timestamp |-> Timestamp(t), message |-> message])

\* The messages of a batch, in order.
Messages(batch) == [i \in 1..Len(batch) |-> batch[i].message]

\* What put_log_events requires of logEvents: timestamps in non-decreasing order.
NonDecreasing(batch) ==
    \A i \in 1..Len(batch) : \A j \in i..Len(batch) :
        batch[i].timestamp <= batch[j].timestamp

\* Line 74: the while condition is evaluated.
EvalWhile ==
    /\ pc = "while"
    /\ pc' = IF LoopCondition THEN "get" ELSE "remove"
    /\ UNCHANGED << q, enqueued, readerPc, linesRead, pillsPut, log_message,
                    death_pills_num, total_logs_sent, logs_batch,
                    last_sent_time, now, status, delivered, unordered,
                    deliveryFailed, interrupts, batchAtInterrupt, calls,
                    provisioned, provisionFailed, containersRun, exitCalled,
                    reported >>

\* queue.LifoQueue in place of queue.Queue: q.get returns the newest item.
GetMessage_Lifo ==
    /\ pc \in {"get", "waiting"}
    /\ q # << >>
    /\ log_message' = q[Len(q)]
    /\ q' = SubSeq(q, 1, Len(q) - 1)
    /\ pc' = "handle"
    /\ UNCHANGED << enqueued, readerPc, linesRead, pillsPut, death_pills_num,
                    total_logs_sent, logs_batch, last_sent_time, now, status,
                    delivered, unordered, deliveryFailed, interrupts,
                    batchAtInterrupt, calls, provisioned, provisionFailed,
                    containersRun, exitCalled, reported >>

\* The head of the queue is read and left in the queue.
GetMessage_Peek ==
    /\ pc \in {"get", "waiting"}
    /\ q # << >>
    /\ log_message' = Head(q)
    /\ pc' = "handle"
    /\ UNCHANGED << q, enqueued, readerPc, linesRead, pillsPut,
                    death_pills_num, total_logs_sent, logs_batch,
                    last_sent_time, now, status, delivered, unordered,
                    deliveryFailed, interrupts, batchAtInterrupt, calls,
                    provisioned, provisionFailed, containersRun, exitCalled,
                    reported >>

\* Line 76: q.get(timeout=1) returns the head of the queue, at once or
\* after a wait shorter than the timeout.
GetMessage ==
    /\ pc \in {"get", "waiting"}
    /\ q # << >>
    /\ log_message' = Head(q)
    /\ q' = Tail(q)
    /\ pc' = "handle"
    /\ UNCHANGED << enqueued, readerPc, linesRead, pillsPut, death_pills_num,
                    total_logs_sent, logs_batch, last_sent_time, now, status,
                    delivered, unordered, deliveryFailed, interrupts,
                    batchAtInterrupt, calls, provisioned, provisionFailed,
                    containersRun, exitCalled, reported >>

\* Line 76: the queue is empty and q.get blocks, for GET_TIMEOUT at most;
\* the clock advances meanwhile.
GetWaits ==
    /\ pc = "get"
    /\ q = << >>
    /\ now' = IF now - last_sent_time < MaxAhead THEN now + GET_TIMEOUT ELSE now
    /\ pc' = "waiting"
    /\ UNCHANGED << q, enqueued, readerPc, linesRead, pillsPut, log_message,
                    death_pills_num, total_logs_sent, logs_batch,
                    last_sent_time, status, delivered, unordered,
                    deliveryFailed, interrupts, batchAtInterrupt, calls,
                    provisioned, provisionFailed, containersRun, exitCalled,
                    reported >>

\* Line 91 inside the else branch of the try statement: an iteration whose
\* q.get timed out goes back to line 74 without evaluating the flush rule.
GetTimeout_SkipsCheck ==
    /\ pc = "waiting"
    /\ q = << >>
    /\ pc' = "while"
    /\ UNCHANGED << q, enqueued, readerPc, linesRead, pillsPut, log_message,
                    death_pills_num, total_logs_sent, logs_batch,
                    last_sent_time, now, status, delivered, unordered,
                    deliveryFailed, interrupts, batchAtInterrupt, calls,
                    provisioned, provisionFailed, containersRun, exitCalled,
                    reported >>

\* Lines 76-78: the queue stayed empty for the whole timeout; queue.Empty is
\* raised and passed over.
GetTimeout ==
    /\ pc = "waiting"
    /\ q = << >>
    /\ pc' = "check"
    /\ UNCHANGED << q, enqueued, readerPc, linesRead, pillsPut, log_message,
                    death_pills_num, total_logs_sent, logs_batch,
                    last_sent_time, now, status, delivered, unordered,
                    deliveryFailed, interrupts, batchAtInterrupt, calls,
                    provisioned, provisionFailed, containersRun, exitCalled,
                    reported >>

\* Line 80 with the test inverted: messages are counted as death pills.
HandleMessage_Inverted ==
    /\ pc = "handle"
    /\ IF log_message # None
         THEN /\ death_pills_num' = death_pills_num + 1
              /\ UNCHANGED logs_batch
         ELSE /\ logs_batch' = AppendLog(logs_batch, log_message, now)
              /\ UNCHANGED death_pills_num
    /\ log_message' = NoMessage
    /\ pc' = "check"
    /\ UNCHANGED << q, enqueued, readerPc, linesRead, pillsPut,
                    total_logs_sent, last_sent_time, now, status, delivered,
                    unordered, deliveryFailed, interrupts, batchAtInterrupt,
                    calls, provisioned, provisionFailed, containersRun,
                    exitCalled, reported >>

\* Lines 80-90: a death pill is counted, a message is stamped and appended.
\* log_message is not read again before the next q.get: it is cleared here.
HandleMessage ==
    /\ pc = "handle"
    /\ IF log_message = None
         THEN /\ death_pills_num' = death_pills_num + 1
              /\ UNCHANGED logs_batch
         ELSE /\ logs_batch' = AppendLog(logs_batch, log_message, now)
              /\ UNCHANGED death_pills_num
    /\ log_message' = NoMessage
    /\ pc' = "check"
    /\ UNCHANGED << q, enqueued, readerPc, linesRead, pillsPut,
                    total_logs_sent, last_sent_time, now, status, delivered,
                    unordered, deliveryFailed, interrupts, batchAtInterrupt,
                    calls, provisioned, provisionFailed, containersRun,
                    exitCalled, reported >>

\* Line 91: the flush rule is evaluated.
EvalFlush ==
    /\ pc = "check"
    /\ pc' = IF FlushCondition THEN "put" ELSE "while"
    /\ UNCHANGED << q, enqueued, readerPc, linesRead, pillsPut, log_message,
                    death_pills_num, total_logs_sent, logs_batch,
                    last_sent_time, now, status, delivered, unordered,
                    deliveryFailed, interrupts, batchAtInterrupt, calls,
                    provisioned, provisionFailed, containersRun, exitCalled,
                    reported >>

\* Lines 92-96: put_log_events accepts the batch.
PutLogEvents ==
    /\ pc = "put"
    /\ delivered' = Append(delivered, Messages(logs_batch))
    /\ unordered' = IF NonDecreasing(logs_batch) THEN unordered ELSE unordered + 1
    /\ pc' = "count"
    /\ UNCHANGED << q, enqueued, readerPc, linesRead, pillsPut, log_message,
                    death_pills_num, total_logs_sent, logs_batch,
                    last_sent_time, now, status, deliveryFailed, interrupts,
                    batchAtInterrupt, calls, provisioned, provisionFailed,
                    containersRun, exitCalled, reported >>

\* Lines 92-96: put_log_events raises (botocore ClientError, ConnectionError).
\* Only KeyboardInterrupt is caught at line 100: the exception leaves
\* log_container, lines 107-109 do not run.
PutLogEventsFails ==
    /\ pc = "put"
    /\ deliveryFailed' = TRUE
    /\ pc' = "crashed"
    /\ UNCHANGED << q, enqueued, readerPc, linesRead, pillsPut, log_message,
                    death_pills_num, total_logs_sent, logs_batch,
                    last_sent_time, now, status, delivered, unordered,
                    interrupts, batchAtInterrupt, calls, provisioned,
                    provisionFailed, containersRun, exitCalled, reported >>

\* Counts one entry per flush, whatever the size of the batch.
CountSent_One ==
    /\ pc = "count"
    /\ total_logs_sent' = total_logs_sent + 1
    /\ pc' = "reset"
    /\ UNCHANGED << q, enqueued, readerPc, linesRead, pillsPut, log_message,
                    death_pills_num, logs_batch, last_sent_time, now, status,
                    delivered, unordered, deliveryFailed, interrupts,
                    batchAtInterrupt, calls, provisioned, provisionFailed,
                    containersRun, exitCalled, reported >>

\* Line 97
CountSent ==
    /\ pc = "count"
    /\ total_logs_sent' = total_logs_sent + Len(logs_batch)
    /\ pc' = "reset"
    /\ UNCHANGED << q, enqueued, readerPc, linesRead, pillsPut, log_message,
                    death_pills_num, logs_batch, last_sent_time, now, status,
                    delivered, unordered, deliveryFailed, interrupts,
                    batchAtInterrupt, calls, provisioned, provisionFailed,
                    containersRun, exitCalled, reported >>

\* Line 98
ResetBatch ==
    /\ pc = "reset"
    /\ logs_batch' = << >>
    /\ pc' = "settime"
    /\ UNCHANGED << q, enqueued, readerPc, linesRead, pillsPut, log_message,
                    death_pills_num, total_logs_sent, last_sent_time, now,
                    status, delivered, unordered, deliveryFailed, interrupts,
                    batchAtInterrupt, calls, provisioned, provisionFailed,
                    containersRun, exitCalled, reported >>

\* Line 99 left out: last_sent_time keeps the time of the flush before.
SetLastSentTime_Stale ==
    /\ pc = "settime"
    /\ pc' = "while"
    /\ UNCHANGED << q, enqueued, readerPc, linesRead, pillsPut, log_message,
                    death_pills_num, total_logs_sent, logs_batch,
                    last_sent_time, now, status, delivered, unordered,
                    deliveryFailed, interrupts, batchAtInterrupt, calls,
                    provisioned, provisionFailed, containersRun, exitCalled,
                    reported >>

\* Line 99
SetLastSentTime ==
    /\ pc = "settime"
    /\ last_sent_time' = now
    /\ pc' = "while"
    /\ UNCHANGED << q, enqueued, readerPc, linesRead, pillsPut, log_message,
                    death_pills_num, total_logs_sent, logs_batch, now, status,
                    delivered, unordered, deliveryFailed, interrupts,
                    batchAtInterrupt, calls, provisioned, provisionFailed,
                    containersRun, exitCalled, reported >>

----------------------------------------------------------------------------
(* KeyboardInterrupt and the handler, log_container.py:100-106 *)

\* Positions of the main thread inside the try block of lines 73-99.
InLoop == {"while", "get", "waiting", "handle", "check", "put", "count",
           "reset", "settime"}

\* Positions inside the inner try block of lines 101-103.
InStop == {"print_stopping", "stop", "stopping"}

\* Positions from which a KeyboardInterrupt is caught by no handler: the
\* except clause of lines 104-106 and lines 107-109.
Unprotected == {"print_killing", "kill", "remove", "summary", "print_done"}

\* The try statement of line 73 inside the while loop: the first interrupt
\* is caught within the iteration and the loop goes on.
InterruptLoop_Resumes ==
    /\ pc \in InLoop
    /\ interrupts = 0
    /\ pc' = "while"
    /\ interrupts' = interrupts + 1
    /\ batchAtInterrupt' = logs_batch
    /\ UNCHANGED << q, enqueued, readerPc, linesRead, pillsPut, log_message,
                    death_pills_num, total_logs_sent, logs_batch,
                    last_sent_time, now, status, delivered, unordered,
                    deliveryFailed, calls, provisioned, provisionFailed,
                    containersRun, exitCalled, reported >>

\* The operator interrupts while the main thread is in the loop: control
\* goes to the except clause of line 100.
InterruptLoop ==
    /\ pc \in InLoop
    /\ pc' = "print_stopping"
    /\ interrupts' = interrupts + 1
    /\ batchAtInterrupt' = logs_batch
    /\ UNCHANGED << q, enqueued, readerPc, linesRead, pillsPut, log_message,
                    death_pills_num, total_logs_sent, logs_batch,
                    last_sent_time, now, status, delivered, unordered,
                    deliveryFailed, calls, provisioned, provisionFailed,
                    containersRun, exitCalled, reported >>

\* Line 102
PrintStopping ==
    /\ pc = "print_stopping"
    /\ pc' = "stop"
    /\ UNCHANGED << q, enqueued, readerPc, linesRead, pillsPut, log_message,
                    death_pills_num, total_logs_sent, logs_batch,
                    last_sent_time, now, status, delivered, unordered,
                    deliveryFailed, interrupts, batchAtInterrupt, calls,
                    provisioned, provisionFailed, containersRun, exitCalled,
                    reported >>

\* Line 103: container.stop() is called, the request goes to the daemon.
ContainerStop ==
    /\ pc = "stop"
    /\ calls' = Append(calls, "stop")
    /\ pc' = "stopping"
    /\ UNCHANGED << q, enqueued, readerPc, linesRead, pillsPut, log_message,
                    death_pills_num, total_logs_sent, logs_batch,
                    last_sent_time, now, status, delivered, unordered,
                    deliveryFailed, interrupts, batchAtInterrupt, provisioned,
                    provisionFailed, containersRun, exitCalled, reported >>

\* Line 103: container.stop() returns, the container has stopped.
ContainerStopReturns ==
    /\ pc = "stopping"
    /\ status' = "exited"
    /\ pc' = "remove"
    /\ UNCHANGED << q, enqueued, readerPc, linesRead, pillsPut, log_message,
                    death_pills_num, total_logs_sent, logs_batch,
                    last_sent_time, now, delivered, unordered, deliveryFailed,
                    interrupts, batchAtInterrupt, calls, provisioned,
                    provisionFailed, containersRun, exitCalled, reported >>

\* The operator interrupts again inside lines 101-103: control goes to the
\* except clause of line 104.
InterruptStop ==
    /\ pc \in InStop
    /\ pc' = "print_killing"
    /\ interrupts' = interrupts + 1
    /\ UNCHANGED << q, enqueued, readerPc, linesRead, pillsPut, log_message,
                    death_pills_num, total_logs_sent, logs_batch,
                    last_sent_time, now, status, delivered, unordered,
                    deliveryFailed, batchAtInterrupt, calls, provisioned,
                    provisionFailed, containersRun, exitCalled, reported >>

\* Line 105
PrintKilling ==
    /\ pc = "print_killing"
    /\ pc' = "kill"
    /\ UNCHANGED << q, enqueued, readerPc, linesRead, pillsPut, log_message,
                    death_pills_num, total_logs_sent, logs_batch,
                    last_sent_time, now, status, delivered, unordered,
                    deliveryFailed, interrupts, batchAtInterrupt, calls,
                    provisioned, provisionFailed, containersRun, exitCalled,
                    reported >>

\* Line 106
ContainerKill ==
    /\ pc = "kill"
    /\ calls' = Append(calls, "kill")
    /\ status' = "exited"
    /\ pc' = "remove"
    /\ UNCHANGED << q, enqueued, readerPc, linesRead, pillsPut, log_message,
                    death_pills_num, total_logs_sent, logs_batch,
                    last_sent_time, now, delivered, unordered, deliveryFailed,
                    interrupts, batchAtInterrupt, provisioned,
                    provisionFailed, containersRun, exitCalled, reported >>

\* The operator interrupts where no handler is active: the KeyboardInterrupt
\* leaves log_container.
InterruptUnprotected ==
    /\ pc \in Unprotected
    /\ pc' = "crashed"
    /\ interrupts' = interrupts + 1
    /\ UNCHANGED << q, enqueued, readerPc, linesRead, pillsPut, log_message,
                    death_pills_num, total_logs_sent, logs_batch,
                    last_sent_time, now, status, delivered, unordered,
                    deliveryFailed, batchAtInterrupt, calls, provisioned,
                    provisionFailed, containersRun, exitCalled, reported >>

----------------------------------------------------------------------------
(* After the loop, log_container.py:107-109 *)

\* Line 107
ContainerRemove ==
    /\ pc = "remove"
    /\ calls' = Append(calls, "remove")
    /\ pc' = "summary"
    /\ UNCHANGED << q, enqueued, readerPc, linesRead, pillsPut, log_message,
                    death_pills_num, total_logs_sent, logs_batch,
                    last_sent_time, now, status, delivered, unordered,
                    deliveryFailed, interrupts, batchAtInterrupt, provisioned,
                    provisionFailed, containersRun, exitCalled, reported >>

\* Line 108
PrintSummary ==
    /\ pc = "summary"
    /\ reported' = total_logs_sent
    /\ pc' = "print_done"
    /\ UNCHANGED << q, enqueued, readerPc, linesRead, pillsPut, log_message,
                    death_pills_num, total_logs_sent, logs_batch,
                    last_sent_time, now, status, delivered, unordered,
                    deliveryFailed, interrupts, batchAtInterrupt, calls,
                    provisioned, provisionFailed, containersRun, exitCalled >>

\* Line 109
PrintDone ==
    /\ pc = "print_done"
    /\ pc' = "done"
    /\ UNCHANGED << q, enqueued, readerPc, linesRead, pillsPut, log_message,
                    death_pills_num, total_logs_sent, logs_batch,
                    last_sent_time, now, status, delivered, unordered,
                    deliveryFailed, interrupts, batchAtInterrupt, calls,
                    provisioned, provisionFailed, containersRun, exitCalled,
                    reported >>

----------------------------------------------------------------------------

\* The steps of the loop that raise nothing.
LoopStep ==
    \/ EvalWhile
    \/ GetMessage
    \/ GetWaits
    \/ GetTimeout
    \/ HandleMessage
    \/ EvalFlush
    \/ PutLogEvents
    \/ CountSent
    \/ ResetBatch
    \/ SetLastSentTime

\* The steps of the except clauses, lines 100-106.
HandlerStep ==
    \/ PrintStopping
    \/ ContainerStop
    \/ ContainerStopReturns
    \/ PrintKilling
    \/ ContainerKill

\* Lines 107-109.
ExitStep ==
    \/ ContainerRemove
    \/ PrintSummary
    \/ PrintDone

Environment ==
    \/ Tick
    \/ ContainerExit

Next ==
    \/ Environment
    \/ StartupStep
    \/ \E p \in Producers : Reader(p)
    \/ LoopStep
    \/ HandlerStep
    \/ ExitStep
    \/ PutLogEventsFails
    \/ InterruptLoop
    \/ InterruptStop
    \/ InterruptUnprotected

Spec == Init /\ [][Next]_vars

\* The runs in which the operator does not interrupt and no delivery fails.
NormalNext ==
    \/ Environment
    \/ StartupStep
    \/ \E p \in Producers : Reader(p)
    \/ LoopStep
    \/ ExitStep

NormalSpec == Init /\ [][NormalNext]_vars

\* The runs in which, besides, no stream read fails: the runs in which both
\* streams can reach end-of-stream.
DrainNext ==
    \/ Environment
    \/ StartupStep
    \/ \E p \in Producers : ReadLine(p) \/ ReadEOF(p)
    \/ LoopStep
    \/ ExitStep

\* Those runs with the main thread scheduled again and again: a step of the
\* main thread that can be taken is taken.  q.get(timeout=1) returns or
\* times out after one second, so no step of the loop blocks for ever.
LiveSpec ==
    Init /\ [][DrainNext]_vars /\ WF_vars(StartupStep \/ LoopStep \/ ExitStep)

----------------------------------------------------------------------------
(* Quantities the properties are stated in *)

RECURSIVE SumLen(_)
\* The number of entries in a sequence of batches.
SumLen(batches) ==
    IF batches = << >> THEN 0 ELSE Len(Head(batches)) + SumLen(Tail(batches))

\* Entries the sink accepted in this run.
TotalDelivered == SumLen(delivered)

\* The messages the sink accepted in this run.
DeliveredMessages ==
    UNION { { delivered[i][j] : j \in 1..Len(delivered[i]) } :
            i \in 1..Len(delivered) }

----------------------------------------------------------------------------
(* Properties *)

\* C1: after an interrupt taken in the loop, every entry that was in
\* logs_batch at that moment has been delivered to the sink when the summary
\* is printed.
C1_FinalFlushAfterInterrupt ==
    (interrupts > 0 /\ reported # NotReported) =>
        \A i \in 1..Len(batchAtInterrupt) :
            batchAtInterrupt[i].message \in DeliveredMessages

\* C2: in a run without interrupt and without delivery failure, when the
\* summary is printed the number of lines the two readers read equals the
\* number of entries in the batches handed to put_log_events.
C2_NoDataLoss ==
    reported # NotReported => TotalLinesRead = TotalDelivered

\* C2 witness: a summary after both readers read lines that were delivered.
C2_Witness ==
    /\ reported # NotReported
    /\ linesRead["stdout"] > 0
    /\ linesRead["stderr"] > 0
    /\ TotalDelivered = MaxLines

\* C3: a reader whose stream read failed has still enqueued exactly one
\* sentinel.
C3_ReadErrorEmitsSentinel ==
    \A p \in Producers : readerPc[p] = "failed" => pillsPut[p] = 1

\* C4: when a put_log_events call has failed, the count delivered by the
\* earlier successful flushes is reported.
C4_DeliveryFailureReported ==
    deliveryFailed => reported = TotalDelivered

\* C5: whenever log_container has ended, by returning or by an exception,
\* container.remove was called.
C5_ContainerReleased ==
    pc \in {"done", "crashed"} => \E i \in 1..Len(calls) : calls[i] = "remove"

\* C6: each reader that has stopped has enqueued exactly one sentinel, none
\* enqueues more, death_pills_num never exceeds the number of readers, and
\* it equals that number once both readers have stopped and the queue is
\* drained.
C6_OneSentinelPerReader ==
    /\ \A p \in Producers : pillsPut[p] <= 1
    /\ \A p \in Producers : readerPc[p] \in {"done", "failed"} => pillsPut[p] = 1
    /\ death_pills_num <= NumProducers
    /\ ( /\ \A p \in Producers : readerPc[p] \in {"done", "failed"}
         /\ q = << >>
         /\ log_message = NoMessage ) => death_pills_num = NumProducers

\* C7: every batch handed to put_log_events, and the pending batch at every
\* moment, has timestamps that are non-decreasing in the order of appending.
C7_TimestampsNonDecreasing ==
    /\ unordered = 0
    /\ NonDecreasing(logs_batch)

\* C7 witness: a batch just handed over that holds entries of both readers
\* stamped at different times.
C7_Witness ==
    /\ pc = "count"
    /\ Len(logs_batch) >= 2
    /\ logs_batch[1].message.source # logs_batch[2].message.source
    /\ logs_batch[1].timestamp < logs_batch[2].timestamp

\* The container has exited and both streams have reached end-of-stream.
Draining ==
    /\ status # "running"
    /\ \A p \in Producers : readerPc[p] = "done"

\* The stopped state: summary and 'Done' printed.
Stopped == pc = "done"

\* C8: once the container has exited and both streams have ended, the
\* pipeline reaches the stopped state with all sentinels received and the
\* pending batch empty.  The stopped state is final and the drain condition
\* stable, so a stop with entries pending would violate this too.
C8_DrainTerminates ==
    Draining ~> (Stopped /\ death_pills_num = NumProducers /\ logs_batch = << >>)

\* C8 witness: the flush of the remaining batch during the drain.
C8_Witness ==
    /\ Draining
    /\ death_pills_num = NumProducers
    /\ pc = "put"

\* C9: container.kill is never called without a preceding container.stop
\* call.
C9_KillOnlyAfterStop ==
    \A i \in 1..Len(calls) :
        calls[i] = "kill" => \E j \in 1..i : calls[j] = "stop"

\* C10: the total printed by the summary equals the number of entries the
\* sink accepted.
C10_ReportedEqualsAccepted ==
    reported # NotReported => reported = TotalDelivered

----------------------------------------------------------------------------
(* Order of capture and of delivery *)

RECURSIVE Concat(_)
\* The batches of a sequence, one after the other.
Concat(batches) ==
    IF batches = << >> THEN << >> ELSE Head(batches) \o Concat(Tail(batches))

\* The messages waiting in the queue, death pills left out.
QueuedMessages == SelectSeq(q, LAMBDA m : m # None)

\* The message q.get has returned and lines 80-90 have not dealt with yet.
Held ==
    IF log_message \in {NoMessage, None} THEN << >> ELSE << log_message >>

\* C11: when the process has emitted N >= 1 lines and exited and the
\* aggregator dequeued all N before the flush interval had elapsed for the
\* first time, there is exactly one flush, of all N entries, and N is
\* reported.  The first flush comes only after the interval has elapsed and
\* hands over every line dequeued until then, in order; and a run whose first
\* flush held every line the readers read ends with that one flush and with
\* the number of lines as the reported total.
C11_SingleFlush ==
    /\ (pc = "put" /\ delivered = << >>) =>
           /\ now - last_sent_time > SEND_LOGS_INTERVAL
           /\ Messages(logs_batch) \o QueuedMessages = enqueued
    /\ ( /\ reported # NotReported
         /\ Len(delivered) >= 1
         /\ Len(delivered[1]) = TotalLinesRead ) =>
           /\ Len(delivered) = 1
           /\ delivered[1] = enqueued
           /\ reported = TotalLinesRead

\* Both streams gave a line, the two were sent in one flush and 2 reported.
C11_Witness ==
    /\ pc = "done"
    /\ linesRead = [p \in Producers |-> 1]
    /\ Len(delivered) = 1
    /\ Len(delivered[1]) = 2
    /\ reported = 2

----------------------------------------------------------------------------
(* Start-up *)

\* C12: when create_log_group or create_log_stream has raised a client or
\* connection error, no container is started, then or later, and the program
\* has ended by exit(1); a container is started only after both provisioning
\* calls have succeeded.
C12_NoContainerWithoutProvisioning ==
    /\ provisionFailed =>
           /\ containersRun = 0
           /\ status = "absent"
           /\ pc = "exited"
           /\ exitCalled = 1
    /\ (containersRun > 0 \/ status # "absent") =>
           /\ provisioned = 2
           /\ ~provisionFailed

\* The group was provisioned, create_log_stream raised and the program
\* ended by exit(1).
C12_Witness ==
    /\ provisionFailed
    /\ provisioned = 1
    /\ exitCalled = 1

----------------------------------------------------------------------------
(* The loop and the flush rule *)

\* C13: the loop is left by its own condition (line 74 found false) only in
\* a state where the container is not running, death_pills_num equals the
\* number of readers and logs_batch is empty; no reader is still at work and
\* no line is in the queue then.
C13_LoopExit ==
    [][(pc = "while" /\ pc' = "remove") =>
           /\ status # "running"
           /\ death_pills_num = NumProducers
           /\ logs_batch = << >>
           /\ \A p \in Producers : readerPc[p] = "done"
           /\ q = << >>]_vars

\* The loop was left by its condition after lines had been delivered.
C13_Witness ==
    /\ pc = "remove"
    /\ interrupts = 0
    /\ TotalDelivered = MaxLines

\* C14: put_log_events is called only with a non-empty batch and only when
\* more than SEND_LOGS_INTERVAL seconds, strictly, have passed since
\* last_sent_time; the rule of line 91 is evaluated in every iteration,
\* after a timed-out q.get as well, so that no iteration ends with a batch
\* that is due; the size of the batch alone triggers nothing.
C14_FlushRule ==
    /\ pc = "put" =>
           /\ Len(logs_batch) > 0
           /\ now - last_sent_time > SEND_LOGS_INTERVAL
    /\ pc = "while" =>
           ~(Len(logs_batch) > 0 /\ now - last_sent_time > SEND_LOGS_INTERVAL)
    /\ (Len(delivered) > 0 /\ last_sent_time = 0) =>
           now - last_sent_time > SEND_LOGS_INTERVAL

\* put_log_events is called with a full batch in the first iteration that
\* finds more than SEND_LOGS_INTERVAL seconds passed, the queue being empty.
C14_Witness ==
    /\ pc = "put"
    /\ Len(logs_batch) = MaxLines
    /\ now - last_sent_time = SEND_LOGS_INTERVAL + GET_TIMEOUT
    /\ q = << >>

\* C15: a successful flush hands the whole pending batch to put_log_events
\* in one call, adds the size of that batch to total_logs_sent, leaves
\* logs_batch empty and last_sent_time at the current time; its steps change
\* neither death_pills_num nor the queue; and a batch handed over is not
\* changed by anything that follows, appends to logs_batch included.
C15_FlushEffect ==
    [][ /\ (pc = "put" /\ pc' = "count") =>
               /\ delivered' = Append(delivered, Messages(logs_batch))
               /\ total_logs_sent = TotalDelivered
               /\ UNCHANGED logs_batch
        /\ (pc = "count" /\ pc' = "reset") =>
               /\ total_logs_sent' = total_logs_sent + Len(logs_batch)
               /\ delivered[Len(delivered)] = Messages(logs_batch)
               /\ total_logs_sent' = TotalDelivered
        /\ (pc = "settime" /\ pc' = "while") =>
               /\ logs_batch' = << >>
               /\ last_sent_time' = now'
               /\ total_logs_sent' = TotalDelivered
        /\ (pc \in {"put", "count", "reset", "settime"} /\ pc' # pc) =>
               UNCHANGED << death_pills_num, q >>
        /\ Len(delivered') >= Len(delivered)
        /\ \A i \in 1..Len(delivered) : delivered'[i] = delivered[i] ]_vars

\* After a flush of one entry a second entry was appended to the new batch.
C15_Witness ==
    /\ pc = "check"
    /\ Len(delivered) = 1
    /\ total_logs_sent = 1
    /\ Len(logs_batch) = 1
    /\ last_sent_time > 0

----------------------------------------------------------------------------
(* Order, duplication and the queue *)

\* s is an initial part of t.
IsPrefix(s, t) == Len(s) <= Len(t) /\ SubSeq(t, 1, Len(s)) = s

\* The messages q.get has returned so far, in that order: those delivered,
\* those of the pending batch (between lines 92 and 98 the pending batch is
\* the one delivered last) and the one in hand.
Dequeued ==
    (IF pc \in {"count", "reset"}
        THEN Concat(delivered)
        ELSE Concat(delivered) \o Messages(logs_batch)) \o Held

\* The lines of producer p among the messages of a sequence, in order.
LinesOf(p, messages) ==
    LET own == SelectSeq(messages, LAMBDA m : m.source = p)
    IN  [i \in 1..Len(own) |-> own[i].data]

\* C16: the delivered batches, one after the other in the order of delivery,
\* are an initial part of the messages in the order q.get returned them,
\* which is the order of q.put across both readers; so the lines of one
\* reader are delivered in the order it read them, whatever the interleaving
\* of stdout and stderr.
C16_DeliveryOrder ==
    /\ IsPrefix(Concat(delivered), Dequeued)
    /\ Dequeued \o QueuedMessages = enqueued
    /\ \A p \in Producers :
           LET lines == LinesOf(p, Concat(delivered))
           IN  \A i \in 1..Len(lines) : lines[i] = i

\* stderr's line was enqueued before stdout's and the two were delivered in
\* that order, in two batches.
C16_Witness ==
    /\ Len(delivered) = 2
    /\ Concat(delivered) = << Message("stderr", 1), Message("stdout", 1) >>
    /\ enqueued = Concat(delivered)

\* The messages of a sequence, as a set.
Range(messages) == { messages[i] : i \in 1..Len(messages) }

\* C17: in every run, with interrupts and failed deliveries too, a message is
\* returned by q.get at most once and is in at most one delivered batch, at
\* most once: the delivered batches, one after the other, are an initial
\* part of the messages enqueued, none of which is enqueued twice, and a
\* message still in the queue is neither delivered, nor pending, nor in hand.
C17_NoDuplicateDelivery ==
    /\ IsPrefix(Concat(delivered), enqueued)
    /\ \A i, j \in 1..Len(enqueued) : enqueued[i] = enqueued[j] => i = j
    /\ \A i, j \in 1..Len(logs_batch) :
           logs_batch[i].message = logs_batch[j].message => i = j
    /\ Range(QueuedMessages) \cap
           (Range(Concat(delivered)) \cup Range(Messages(logs_batch))
               \cup Range(Held)) = {}

\* One batch was delivered and the delivery of the next one failed.
C17_Witness ==
    /\ deliveryFailed
    /\ Len(delivered) = 1
    /\ Len(logs_batch) = 1
    /\ interrupts = 0

\* C18: a reader puts its death pill after all its messages and the queue
\* is FIFO: behind every message of a finished reader there is a death pill
\* in the queue; once every death pill put so far has been taken, no message
\* of a finished reader is in the queue or in hand; whenever death_pills_num
\* equals the number of readers the queue is empty, nothing is in hand and
\* both readers have finished, so the queue stays empty; and no line is in
\* the queue when the loop has been left by its condition.
C18_QueueEmptyAfterPills ==
    /\ \A i \in 1..Len(q) :
           (q[i] # None /\ readerPc[q[i].source] = "done") =>
               \E j \in (i + 1)..Len(q) : q[j] = None
    /\ ((\A i \in 1..Len(q) : q[i] # None) /\ log_message # None) =>
           \A m \in Range(QueuedMessages) \cup Range(Held) :
               readerPc[m.source] # "done"
    /\ death_pills_num = NumProducers =>
           /\ q = << >>
           /\ Held = << >>
           /\ \A p \in Producers : readerPc[p] = "done"
    /\ (pc \in {"remove", "summary", "print_done", "done"} /\ interrupts = 0) =>
           q = << >>

\* Both death pills are counted and the loop goes on with a full batch and
\* an empty queue.
C18_Witness ==
    /\ death_pills_num = NumProducers
    /\ pc = "waiting"
    /\ Len(logs_batch) = MaxLines

----------------------------------------------------------------------------
(* Flush latency *)

\* The positions of the loop at which the entries of logs_batch are waiting
\* to be handed over: from line 74 up to the evaluation of line 91.
Waiting == {"while", "get", "waiting", "handle", "check"}

\* C19 as stated: every entry appended to the pending batch is handed to
\* the sink within SEND_LOGS_INTERVAL plus one q.get timeout of the previous
\* flush (or of the start of the loop): when line 91 is evaluated with a
\* non-empty batch, no more than that has passed since last_sent_time.
C19_WithinIntervalOfLastFlush ==
    (pc = "check" /\ Len(logs_batch) > 0) =>
        now - last_sent_time <= SEND_LOGS_INTERVAL + GET_TIMEOUT

\* C19, amended: in a run without interrupt and failed delivery no iteration
\* ends with a non-empty batch and more than SEND_LOGS_INTERVAL passed since
\* last_sent_time; so an entry appended within SEND_LOGS_INTERVAL of
\* last_sent_time is handed over no later than SEND_LOGS_INTERVAL plus one
\* q.get timeout after last_sent_time, an entry appended later than that is
\* handed over in the iteration that appended it, and no entry waits in the
\* batch for longer than SEND_LOGS_INTERVAL plus one q.get timeout.
C19_BoundedWait ==
    /\ pc = "while" =>
           ~(Len(logs_batch) > 0 /\ now - last_sent_time > SEND_LOGS_INTERVAL)
    /\ pc \in Waiting =>
           \A i \in 1..Len(logs_batch) :
               /\ Timestamp(now) - logs_batch[i].timestamp
                      <= Timestamp(SEND_LOGS_INTERVAL + GET_TIMEOUT)
               /\ logs_batch[i].timestamp
                      <= Timestamp(last_sent_time + SEND_LOGS_INTERVAL) =>
                          now - last_sent_time <= SEND_LOGS_INTERVAL + GET_TIMEOUT
    /\ pc \in Waiting \ {"check"} =>
           \A i \in 1..Len(logs_batch) :
               logs_batch[i].timestamp
                   <= Timestamp(last_sent_time + SEND_LOGS_INTERVAL)

\* An entry appended at the time of last_sent_time is handed over after
\* SEND_LOGS_INTERVAL plus one timeout, with an entry appended later.
C19_Witness ==
    /\ pc = "put"
    /\ Len(logs_batch) = MaxLines
    /\ logs_batch[1].timestamp = Timestamp(last_sent_time)
    /\ logs_batch[MaxLines].timestamp > logs_batch[1].timestamp
    /\ now - last_sent_time = SEND_LOGS_INTERVAL + GET_TIMEOUT

----------------------------------------------------------------------------
(* After an interrupt *)

\* C20: once a KeyboardInterrupt has taken the main thread out of the loop,
\* no step takes anything from the queue (the queue only grows, by what the
\* readers still put), put_log_events is not called again, and
\* total_logs_sent, logs_batch and death_pills_num keep their values up to
\* the summary and beyond.
C20_FrozenAfterInterrupt ==
    [][interrupts > 0 =>
           /\ IsPrefix(q, q')
           /\ UNCHANGED << total_logs_sent, logs_batch, death_pills_num,
                           log_message, delivered, deliveryFailed >>]_vars

\* The run ended after one interrupt with one line pending, another line and
\* both death pills left in the queue, and nothing delivered.
C20_Witness ==
    /\ pc = "done"
    /\ interrupts = 1
    /\ Len(logs_batch) = 1
    /\ Len(q) = MaxLines - 1 + NumProducers
    /\ death_pills_num = 0
    /\ delivered = << >>

====
